---- MODULE Spec2Model ----
(***************************************************************************)
(* Model of src/benchmark_parser.py: the two synthetic source generators   *)
(* (generate_javascript_code, generate_typescript_code), the benchmark     *)
(* driver (benchmark_parsing) and the entry point (main).                  *)
(*                                                                         *)
(* Text is modelled as a sequence of tokens: "\n" is a newline, " " is a   *)
(* run of blanks, every other token is a run of visible characters.  The   *)
(* f-string substitutions of the templates insert digits only, so they     *)
(* never change a token's class; they are left out of the tokens.          *)
(*                                                                         *)
(* Numbers that Python holds as floats (duration_ms and the values derived *)
(* from it) are modelled as exact rationals <<numerator, denominator>>.    *)
(*                                                                         *)
(* Nesting of the trial: in the file as committed the statements of lines  *)
(* 307-362 (start_time, try, the status test) are written at the level of  *)
(* the size loop of line 280, while the handler and the append that close  *)
(* them (lines 364-374) are written at the level of the dialect loop of    *)
(* line 282; Python rejects the file at line 364.  The two well-formed     *)
(* programs this text can stand for are both modelled: trial_nesting says  *)
(* whether a trial runs inside the dialect loop (once per size and         *)
(* dialect) or after it (once per size, with the last dialect's text).     *)
(***************************************************************************)
EXTENDS Integers, Sequences, FiniteSets, TLC

VARIABLES
    \* ---- generator (one call of generate_*_code) ----
    lines,            \* the argument `lines`
    dialect,          \* which generator is running
    code_parts,       \* list of strings
    current_lines,    \* the running counter
    function_count,   \* the rotation index
    gpc,              \* position in the generator: "loop", "returned", "off"
    code,             \* the returned string
    \* ---- driver and entry point ----
    pc,               \* position in main / benchmark_parsing
    trial_nesting,    \* the loop whose body the trial of lines 307-374 is
    file_sizes,       \* the argument of benchmark_parsing
    size_idx,         \* index of `size` in file_sizes (outer loop)
    lang_idx,         \* index of the dialect triple (inner loop)
    benchmarks,       \* results['benchmarks']
    summary,          \* results['summary']
    calls,            \* analysis calls issued so far, in order
    inflight,         \* number of analysis calls awaiting their outcome
    responses,        \* outcome the service gave to each finished call
    file_writes,      \* number of times benchmark_results.json was written
    written,          \* what json.dump wrote
    deliverable       \* the status printed by the deliverable check

gvars == <<lines, dialect, code_parts, current_lines, function_count, gpc, code>>
dvars == <<pc, trial_nesting, file_sizes, size_idx, lang_idx, benchmarks, summary, calls,
           inflight, responses, file_writes, written, deliverable>>
vars == <<lines, dialect, code_parts, current_lines, function_count, gpc, code,
          pc, trial_nesting, file_sizes, size_idx, lang_idx, benchmarks, summary, calls,
          inflight, responses, file_writes, written, deliverable>>

----------------------------------------------------------------------------
(* Bounds of the exploration *)

MaxBelowZero == 3
MaxTarget == 160
MaxSizes == 2
MaxLiveSizes == 1

----------------------------------------------------------------------------
(* Strings *)

NL == "\n"
WS == " "

IsSpace(t) == t = NL \/ t = WS

\* str.join: the parts with the separator between consecutive parts
RECURSIVE Join(_, _)
Join(sep, parts) ==
    IF Len(parts) = 0 THEN <<>>
    ELSE IF Len(parts) = 1 THEN parts[1]
    ELSE LET m == Len(parts) \div 2
         IN Join(sep, SubSeq(parts, 1, m)) \o sep
              \o Join(sep, SubSeq(parts, m + 1, Len(parts)))

\* str.split('\n'): the maximal newline-free segments, in order
RECURSIVE Split(_)
Split(s) ==
    IF Len(s) = 0 THEN << <<>> >>
    ELSE IF Len(s) = 1 THEN (IF s[1] = NL THEN << <<>>, <<>> >> ELSE << s >>)
    ELSE LET m == Len(s) \div 2
             a == Split(SubSeq(s, 1, m))
             b == Split(SubSeq(s, m + 1, Len(s)))
         IN SubSeq(a, 1, Len(a) - 1) \o << a[Len(a)] \o b[1] >> \o Tail(b)

\* str.strip(): leading and trailing whitespace removed
Strip(s) ==
    LET keep == {i \in 1..Len(s) : ~IsSpace(s[i])}
    IN IF keep = {} THEN <<>>
       ELSE LET lo == CHOOSE i \in keep : \A j \in keep : i <= j
                hi == CHOOSE i \in keep : \A j \in keep : j <= i
            IN SubSeq(s, lo, hi)

\* a multi-line literal, written line by line
Literal(ls) == Join(<<NL>>, ls)

T == <<"t">>
B == <<WS>>
E == <<>>

----------------------------------------------------------------------------
(* The generators *)

Dialects == <<"JavaScript", "TypeScript">>

\* lines 33-64
class_code_js ==
    Literal(<<
       E, <<"class TestClass">>, T, T, T, T, B, T, T, T, T, T, T, T, T, T,
       T, T, T, T, T, T, T, T, T, T, B, T, T, T, T, E
    >>)

\* lines 69-110
func_code_js ==
    Literal(<<
       E, <<"function testFunction">>, T, B, T, T, T, T, T, T, T, B, T, T,
       T, T, T, T, T, B, T, T, T, T, T, T, T, T, T, T, T, T, T, B, T, T, E,
       <<"const arrow">>, T, T, T, E
    >>)

\* lines 147-158
interface_code ==
    Literal(<<
       E, <<"interface Entity">>, T, T, T, T, B, T, T, T, T, E
    >>)

\* lines 163-199
class_code_ts ==
    Literal(<<
       E, <<"class Repository">>, T, B, T, B, T, T, T, T, B, T, T, T, T, T,
       B, T, T, T, B, T, T, T, B, T, T, T, T, T, B, T, T, T, T, T, E
    >>)

\* lines 204-252
func_code_ts ==
    Literal(<<
       E, <<"async function processEntity">>, T, T, T, T, T, T, T, B, T, T,
       T, T, T, B, T, T, T, T, T, T, T, T, T, T, B, T, T, T, B, T, T, T, T,
       T, T, T, T, T, E, <<"const createValidator">>, T, T, T, T, T, T, E
    >>)

\* the import block without its closing empty string
PreambleNoBlank(d) ==
    IF d = "JavaScript"
    THEN << <<"import React">>, <<"import useState">>, <<"const fs">>,
            <<"const path">> >>
    ELSE << <<"import React">>, <<"import type">>, <<"import utils">>,
            <<"const fs">> >>

\* the import block both generators start from (lines 19-25, 133-139)
Preamble(d) ==
    IF d = "JavaScript"
    THEN << <<"import React">>, <<"import useState">>, <<"const fs">>,
            <<"const path">>, E >>
    ELSE << <<"import React">>, <<"import type">>, <<"import utils">>,
            <<"const fs">>, E >>

\* the declarations added after a block (lines 118-123, 260-265)
Declarations(d) ==
    IF d = "JavaScript"
    THEN << <<"const variable">>, <<"let counter">>, <<"var legacy">>, E >>
    ELSE << <<"type ProcessOptions">>, <<"type ProcessResult">>,
            <<"enum Status">>, E >>

\* the rotation taken modulo 3 instead of modulo 5 and 4
TemplateMod3(d, fc) ==
    IF d = "JavaScript"
    THEN (IF fc % 3 = 0 THEN class_code_js ELSE func_code_js)
    ELSE (IF fc % 3 = 0 THEN interface_code
          ELSE IF fc % 3 = 1 THEN class_code_ts
          ELSE func_code_ts)

\* the block chosen by the rotation index (lines 31-67, 145-202)
Template(d, fc) ==
    IF d = "JavaScript"
    THEN (IF fc % 5 = 0 THEN class_code_js ELSE func_code_js)
    ELSE (IF fc % 4 = 0 THEN interface_code
          ELSE IF fc % 4 = 1 THEN class_code_ts
          ELSE func_code_ts)

\* len(block.strip()): the length of the block instead of its lines
CountedChars(block) == Len(Strip(block))

\* len(block.strip().split('\n'))
CountedLines(block) == Len(Split(Strip(block)))

\* the margin of the declarations test: lines - 5, lines - 10
Margin(d) == IF d = "JavaScript" THEN 5 ELSE 10

\* while current_lines < lines
LoopCond(cl, target) == cl < target

\* the state after lines 16-28 / 130-142
GenStart(d) ==
    [code_parts |-> Preamble(d), current_lines |-> 5, function_count |-> 0]

\* one iteration of the while loop (lines 31-124, 145-266)
GenBody(d, target, st) ==
    LET block == Template(d, st.function_count)
        cl    == st.current_lines + CountedLines(block)
        fc    == st.function_count + 1
        more  == cl < target - Margin(d)
    IN [code_parts     |-> IF more
                           THEN Append(st.code_parts, block) \o Declarations(d)
                           ELSE Append(st.code_parts, block),
        current_lines  |-> IF more THEN cl + 4 ELSE cl,
        function_count |-> fc]

\* return '\n'.join(code_parts)
GenResult(st) == Join(<<NL>>, st.code_parts)

RECURSIVE GenRun(_, _, _)
GenRun(d, target, st) ==
    IF LoopCond(st.current_lines, target)
    THEN GenRun(d, target, GenBody(d, target, st))
    ELSE st

\* generate_javascript_code(lines) / generate_typescript_code(lines)
Generate(d, target) == GenResult(GenRun(d, target, GenStart(d)))

\* len(code.split('\n')), as the driver recomputes it (line 290)
ActualLines(text) == Len(Split(text))

\* the largest template of a dialect, in lines
MaxBlock(d) ==
    IF d = "JavaScript"
    THEN CountedLines(func_code_js)
    ELSE CountedLines(func_code_ts)

GenIdle ==
    /\ lines = 0 /\ dialect = "none" /\ code_parts = <<>>
    /\ current_lines = 0 /\ function_count = 0 /\ gpc = "off" /\ code = <<>>

DriverIdle ==
    /\ pc = "off" /\ trial_nesting = "none" /\ file_sizes = <<>> /\ size_idx = 0 /\ lang_idx = 0
    /\ benchmarks = <<>> /\ summary = <<>> /\ calls = <<>> /\ inflight = 0
    /\ responses = <<>> /\ file_writes = 0 /\ written = <<>>
    /\ deliverable = "none"

\* a call of one generator with some target
GenInit ==
    /\ lines \in (-MaxBelowZero)..MaxTarget
    /\ dialect \in {Dialects[1], Dialects[2]}
    /\ code_parts = GenStart(dialect).code_parts
    /\ current_lines = GenStart(dialect).current_lines
    /\ function_count = GenStart(dialect).function_count
    /\ gpc = "loop"
    /\ code = <<>>
    /\ DriverIdle

GenLoop ==
    /\ gpc = "loop"
    /\ LoopCond(current_lines, lines)
    /\ LET st == GenBody(dialect, lines,
                         [code_parts |-> code_parts,
                          current_lines |-> current_lines,
                          function_count |-> function_count])
       IN /\ code_parts' = st.code_parts
          /\ current_lines' = st.current_lines
          /\ function_count' = st.function_count
    /\ UNCHANGED <<lines, dialect, gpc, code>>
    /\ UNCHANGED dvars

GenReturn ==
    /\ gpc = "loop"
    /\ ~LoopCond(current_lines, lines)
    /\ code' = GenResult([code_parts |-> code_parts])
    /\ gpc' = "returned"
    /\ UNCHANGED <<lines, dialect, code_parts, current_lines, function_count>>
    /\ UNCHANGED dvars

GenNext == GenLoop \/ GenReturn

SpecGen == GenInit /\ [][GenNext]_vars

----------------------------------------------------------------------------
(* Numbers: exact rationals <<numerator, denominator>>, denominator > 0.  *)
(* The operations are functions, so that an argument is evaluated once.   *)

Abs(n) == IF n < 0 THEN -n ELSE n

Max(S) == CHOOSE x \in S : \A y \in S : y <= x

Fraction == Int \X Int

\* greatest common divisor of two naturals, used to keep fractions reduced
GCD ==
    [a \in Nat, b \in Nat |->
        IF a = 0 THEN b
        ELSE IF b = 0 THEN a
        ELSE Max({d \in 1..(IF a < b THEN a ELSE b) : a % d = 0 /\ b % d = 0})]

\* the fraction n/d in lowest terms
Rat ==
    [n \in Int, d \in Int |->
        LET g == GCD[Abs(n), Abs(d)]
            sg == IF d < 0 THEN -1 ELSE 1
        IN <<sg * (n \div g), sg * (d \div g)>>]

Num(n) == <<n, 1>>
IsZero(a) == a[1] = 0

RatMul ==
    [a \in Fraction, b \in Fraction |->
        LET g1 == GCD[Abs(a[1]), b[2]]
            g2 == GCD[Abs(b[1]), a[2]]
        IN Rat[(a[1] \div g1) * (b[1] \div g2), (a[2] \div g2) * (b[2] \div g1)]]

RatAdd ==
    [a \in Fraction, b \in Fraction |->
        LET g == GCD[a[2], b[2]]
        IN Rat[a[1] * (b[2] \div g) + b[1] * (a[2] \div g),
               (a[2] \div g) * b[2]]]

RatLeq(a, b) == a[1] * b[2] <= b[1] * a[2]

ZeroDivisionError == "ZeroDivisionError"

\* Python's true division: raises on a zero divisor
Div(a, b) ==
    IF a = ZeroDivisionError THEN ZeroDivisionError
    ELSE IF b = ZeroDivisionError THEN ZeroDivisionError
    ELSE IF IsZero(b) THEN ZeroDivisionError
    ELSE RatMul[a, Rat[b[2], b[1]]]

Mul(a, b) ==
    IF a = ZeroDivisionError THEN ZeroDivisionError
    ELSE IF b = ZeroDivisionError THEN ZeroDivisionError
    ELSE RatMul[a, b]

\* sum(...) over the first k values of a list
RECURSIVE SumTo(_, _)
SumTo(s, k) == IF k = 0 THEN Num(0) ELSE RatAdd[SumTo(s, k - 1), s[k]]

Sum(s) == SumTo(s, Len(s))

----------------------------------------------------------------------------
(* The service, as the driver sees it *)

\* sizes a sweep may ask for (both are sizes of main's list, line 421)
SizeChoices == {100, 1000}

\* costs of the service, in ms per 1000 lines, that a successful call may show
RateChoices == {50, 150}

OK == 200

\* statuses other than 200 that the service may answer with
FailureStatuses == {500}

\* a well-formed answer (the shape of lines 324-337)
GoodBody ==
    [results |-> << [metrics |-> [functions_count |-> 2, classes_count |-> 1,
                                   complexity_score |-> 5],
                     findings |-> <<>>] >>]

\* what one analysis call can end in: an answer after some time, or a raise
Outcomes(actual_lines) ==
    {[kind |-> "response", status |-> OK, body |-> GoodBody, text |-> <<>>,
      duration_ms |-> Rat[actual_lines * r, 1000]] : r \in RateChoices \cup {0}}
    \cup {[kind |-> "response", status |-> st, body |-> [results |-> <<>>],
           text |-> <<>>, duration_ms |-> Num(1)] : st \in FailureStatuses}
    \cup {[kind |-> "raise", exc |-> "Timeout"]}

\* str(e)
Str(exc) ==
    CASE exc = "Timeout" -> <<"Read timed out.">>
      [] exc = "IndexError" -> <<"list index out of range">>
      [] exc = ZeroDivisionError -> <<"float division by zero">>

Extension(lang) == IF lang = "JavaScript" THEN "js" ELSE "ts"

----------------------------------------------------------------------------
(* benchmark_parsing *)

\* line 290, tabulated for the sizes a sweep can ask for
LineCounts ==
    {<<d, sz, ActualLines(Generate(d, sz))>> :
        d \in {Dialects[1], Dialects[2]}, sz \in SizeChoices}

\* lines 289-290: actual_lines of the text generated for (lang, size)
ActualLinesOf(lang, size) ==
    (CHOOSE t \in LineCounts : t[1] = lang /\ t[2] = size)[3]

\* the handler of lines 364-371
ExceptionResult(lang, size, actual_lines, exc) ==
    [language |-> lang, target_lines |-> size, actual_lines |-> actual_lines,
     error |-> Str(exc), success |-> FALSE]

\* lines 327-339
SuccessResult(lang, size, actual_lines, duration_ms, file_result) ==
    LET lps == Div(Num(actual_lines), Div(duration_ms, Num(1000)))
        ms1k == Mul(Div(duration_ms, Num(actual_lines)), Num(1000))
    IN IF lps = ZeroDivisionError \/ ms1k = ZeroDivisionError
       THEN ExceptionResult(lang, size, actual_lines, ZeroDivisionError)
       ELSE [language |-> lang, target_lines |-> size,
             actual_lines |-> actual_lines, duration_ms |-> duration_ms,
             lines_per_second |-> lps, ms_per_1k_lines |-> ms1k,
             functions_found |-> file_result.metrics.functions_count,
             classes_found |-> file_result.metrics.classes_count,
             complexity_score |-> file_result.metrics.complexity_score,
             findings_count |-> Len(file_result.findings),
             success |-> TRUE]

\* the record of a refused call, without its error entry
HttpErrorNoDescription(lang, size, actual_lines, o) ==
    [language |-> lang, target_lines |-> size, actual_lines |-> actual_lines,
     duration_ms |-> o.duration_ms,
     success |-> FALSE]

\* lines 354-361
HttpErrorResult(lang, size, actual_lines, o) ==
    [language |-> lang, target_lines |-> size, actual_lines |-> actual_lines,
     duration_ms |-> o.duration_ms,
     error |-> <<"HTTP ", o.status, ": ">> \o o.text,
     success |-> FALSE]

\* the try statement of lines 310-372: the record of one trial
TrialResult(lang, size, actual_lines, o) ==
    IF o.kind = "raise"
    THEN ExceptionResult(lang, size, actual_lines, o.exc)
    ELSE IF o.status = OK
    THEN (IF Len(o.body.results) = 0
          THEN ExceptionResult(lang, size, actual_lines, "IndexError")
          ELSE SuccessResult(lang, size, actual_lines, o.duration_ms,
                             o.body.results[1]))
    ELSE HttpErrorResult(lang, size, actual_lines, o)

\* [b for b in ... if b['success']], lines 377 and 432
IsSuccess(b) == b.success
Successful(bs) == SelectSeq(bs, IsSuccess)

EmptyDict == <<>>

\* the count stored as total_tests, line 385
TotalTests(sizes) == Len(sizes)

\* the comparison with 100 taken strictly
MeetsTargetStrict(avg) == ~RatLeq(Num(100), avg)

\* avg_ms_per_1k <= 100, line 390
MeetsTarget(avg) == RatLeq(avg, Num(100))

\* lines 377-391
Summarise(sizes, bs) ==
    LET ok == Successful(bs)
        n == Len(ok)
    IN IF n = 0 THEN EmptyDict
       ELSE LET avg_ms_per_1k ==
                    Div(Sum([i \in 1..n |-> ok[i].ms_per_1k_lines]), Num(n))
                avg_lines_per_sec ==
                    Div(Sum([i \in 1..n |-> ok[i].lines_per_second]), Num(n))
                max_lines_tested == Max({ok[i].actual_lines : i \in 1..n})
            IN [total_tests |-> TotalTests(sizes),
                successful_tests |-> n,
                average_ms_per_1k_lines |-> avg_ms_per_1k,
                average_lines_per_second |-> avg_lines_per_sec,
                max_lines_tested |-> max_lines_tested,
                meets_target |-> MeetsTarget(avg_ms_per_1k)]

\* s[-n:]
LastN(s, n) == SubSeq(s, IF Len(s) > n THEN Len(s) - n + 1 ELSE 1, Len(s))

\* the condition of line 433 asking for two successful trials
ReadyWithTwo(bs) ==
    LET successful_tests == Successful(bs)
        tail == LastN(successful_tests, 3)
    IN /\ Len(successful_tests) >= 2
       /\ \A i \in 1..Len(tail) : tail[i].actual_lines >= 1000

\* the condition of line 433
Ready(bs) ==
    LET successful_tests == Successful(bs)
        tail == LastN(successful_tests, 3)
    IN /\ Len(successful_tests) >= 3
       /\ \A i \in 1..Len(tail) : tail[i].actual_lines >= 1000

----------------------------------------------------------------------------
(* main *)

\* the loop a trial can be the body of: the dialect loop of line 282 (the
\* indentation of lines 364-374) or the size loop of line 280 (the
\* indentation of lines 307-362)
Nestings == {"dialect_loop", "size_loop"}

\* the dialect triple of the first trial: the first of the dialect loop, or
\* the one the dialect loop ended on
FirstLang(nesting) == IF nesting = "dialect_loop" THEN 1 ELSE Len(Dialects)

\* the loops of lines 280 and 282: the trial that follows trial (si, li)
Advance(nesting, si, li, n) ==
    IF nesting = "dialect_loop" /\ li < Len(Dialects)
    THEN [size_idx |-> si, lang_idx |-> li + 1, more |-> TRUE]
    ELSE [size_idx |-> si + 1, lang_idx |-> FirstLang(nesting), more |-> si < n]

RECURSIVE SeqsUpTo(_, _)
SeqsUpTo(S, n) ==
    IF n = 0 THEN {<<>>}
    ELSE LET shorter == SeqsUpTo(S, n - 1)
         IN shorter \cup {Append(q, x) : q \in shorter, x \in S}

InitWith(n) ==
    /\ GenIdle
    /\ pc = "probe"
    /\ trial_nesting \in Nestings
    /\ file_sizes \in SeqsUpTo(SizeChoices, n)
    /\ size_idx = 0 /\ lang_idx = 0
    /\ benchmarks = <<>> /\ summary = EmptyDict
    /\ calls = <<>> /\ inflight = 0 /\ responses = <<>>
    /\ file_writes = 0 /\ written = <<>>
    /\ deliverable = "none"

\* lines 410-418: the health check fails, main returns
ProbeFails ==
    /\ pc = "probe"
    /\ \E o \in {[kind |-> "response", status |-> st] : st \in FailureStatuses}
                   \cup {[kind |-> "raise", exc |-> "ConnectionError"]} :
          /\ IF o.kind = "raise" THEN TRUE ELSE o.status # OK
          /\ pc' = "aborted"
    /\ UNCHANGED <<trial_nesting, file_sizes, size_idx, lang_idx, benchmarks, summary, calls,
                   inflight, responses, file_writes, written, deliverable>>
    /\ UNCHANGED gvars

\* lines 410-423 and 272-280: the health check answers 200, the sweep starts
ProbeSucceeds ==
    /\ pc = "probe"
    /\ size_idx' = 1 /\ lang_idx' = FirstLang(trial_nesting)
    /\ pc' = IF Len(file_sizes) = 0 THEN "summarise" ELSE "trial"
    /\ UNCHANGED <<trial_nesting, file_sizes, benchmarks, summary, calls, inflight,
                   responses, file_writes, written, deliverable>>
    /\ UNCHANGED gvars

\* lines 286-315: generate the text, build the request, send it
IssueCall ==
    /\ pc = "trial"
    /\ LET size == file_sizes[size_idx]
           lang == Dialects[lang_idx]
       IN calls' = Append(calls,
                [size |-> size, language |-> lang,
                 name |-> <<"test_", size, "_lines.", Extension(lang)>>,
                 actual_lines |-> ActualLinesOf(lang, size)])
    /\ inflight' = inflight + 1
    /\ pc' = "await"
    /\ UNCHANGED <<trial_nesting, file_sizes, size_idx, lang_idx, benchmarks, summary,
                   responses, file_writes, written, deliverable>>
    /\ UNCHANGED gvars

\* lines 311-374: the call ends, the record is built and appended, and the
\* loops of lines 280 and 282 move on
Complete ==
    /\ pc = "await"
    /\ LET size == file_sizes[size_idx]
           lang == Dialects[lang_idx]
           actual_lines == calls[Len(calls)].actual_lines
       IN \E o \in Outcomes(actual_lines) :
            /\ responses' = Append(responses, o)
            /\ benchmarks' = Append(benchmarks,
                                    TrialResult(lang, size, actual_lines, o))
    /\ inflight' = inflight - 1
    /\ LET nxt == Advance(trial_nesting, size_idx, lang_idx, Len(file_sizes))
       IN /\ size_idx' = nxt.size_idx
          /\ lang_idx' = nxt.lang_idx
          /\ pc' = IF nxt.more THEN "trial" ELSE "summarise"
    /\ UNCHANGED <<trial_nesting, file_sizes, summary, calls, file_writes,
                   written, deliverable>>
    /\ UNCHANGED gvars

\* lines 376-405
Summary ==
    /\ pc = "summarise"
    /\ summary' = Summarise(file_sizes, benchmarks)
    /\ pc' = "save"
    /\ UNCHANGED <<trial_nesting, file_sizes, size_idx, lang_idx, benchmarks, calls, inflight,
                   responses, file_writes, written, deliverable>>
    /\ UNCHANGED gvars

\* the file written only when there is a summary
SaveIfSummary ==
    /\ pc = "save"
    /\ file_writes' = IF summary = EmptyDict THEN file_writes ELSE file_writes + 1
    /\ written' = IF summary = EmptyDict THEN written
                  ELSE [benchmarks |-> benchmarks, summary |-> summary]
    /\ pc' = "deliverable"
    /\ UNCHANGED <<trial_nesting, file_sizes, size_idx, lang_idx, benchmarks, summary, calls,
                   inflight, responses, deliverable>>
    /\ UNCHANGED gvars

\* lines 426-429
Save ==
    /\ pc = "save"
    /\ file_writes' = file_writes + 1
    /\ written' = [benchmarks |-> benchmarks, summary |-> summary]
    /\ pc' = "deliverable"
    /\ UNCHANGED <<trial_nesting, file_sizes, size_idx, lang_idx, benchmarks, summary, calls,
                   inflight, responses, deliverable>>
    /\ UNCHANGED gvars

\* lines 432-440
DeliverableCheck ==
    /\ pc = "deliverable"
    /\ deliverable' = IF Ready(benchmarks) THEN "READY" ELSE "IN PROGRESS"
    /\ pc' = "done"
    /\ UNCHANGED <<trial_nesting, file_sizes, size_idx, lang_idx, benchmarks, summary, calls,
                   inflight, responses, file_writes, written>>
    /\ UNCHANGED gvars

Init == InitWith(MaxSizes)

LiveInit == InitWith(MaxLiveSizes)

Next ==
    \/ ProbeFails
    \/ ProbeSucceeds
    \/ IssueCall
    \/ Complete
    \/ Summary
    \/ Save
    \/ DeliverableCheck

Spec == Init /\ [][Next]_vars

\* every call of the run returns: the network calls are bounded by their
\* timeouts (lines 314, 411) and nothing else blocks
LiveSpec == LiveInit /\ [][Next]_vars /\ WF_vars(Next)

----------------------------------------------------------------------------
(* Properties of the driver, under Spec and LiveSpec *)

NumSizes == Len(file_sizes)

\* the number of trials of the sweep
NumTrials ==
    IF trial_nesting = "dialect_loop" THEN Len(Dialects) * NumSizes ELSE NumSizes
AfterSweep == pc \in {"summarise", "save", "deliverable", "done"}
Summarised == pc \in {"save", "deliverable", "done"}

\* the size and dialect the k-th trial of the sweep is for
SizeOfTrial(k) == file_sizes[((k - 1) \div 2) + 1]
DialectOfTrial(k) == Dialects[((k - 1) % 2) + 1]

SuccessIdx == {i \in 1..Len(benchmarks) : benchmarks[i].success}

Failed(o) == IF o.kind = "raise" THEN TRUE ELSE o.status # OK
AnsweredWell(o) ==
    IF o.kind = "raise" THEN FALSE
    ELSE IF o.status # OK THEN FALSE
    ELSE Len(o.body.results) > 0

RECURSIVE SumOver(_, _)
SumOver(S, f) ==
    IF S = {} THEN Num(0)
    ELSE LET i == CHOOSE x \in S : TRUE
         IN RatAdd[f[i], SumOver(S \ {i}, f)]

\* C1: one analysis call and one record per (size, dialect) pair, in the
\* order size-major, dialect-minor, whatever the outcomes; a call is issued
\* only when every earlier call has its record; a sweep over n sizes ends
\* with 2n of each.
C1_OnePerPair ==
    /\ inflight \in {0, 1}
    /\ Len(calls) = Len(benchmarks) + inflight
    /\ Len(calls) <= 2 * NumSizes
    /\ \A k \in 1..Len(calls) :
          /\ calls[k].size = SizeOfTrial(k)
          /\ calls[k].language = DialectOfTrial(k)
    /\ \A k \in 1..Len(benchmarks) :
          /\ benchmarks[k].target_lines = SizeOfTrial(k)
          /\ benchmarks[k].language = DialectOfTrial(k)
    /\ AfterSweep =>
          (Len(calls) = 2 * NumSizes /\ Len(benchmarks) = 2 * NumSizes)

\* C2: a trial whose call raises or is answered with a status other than 200
\* is recorded with success = false and a non-empty error, and the sweep
\* goes on to the next trial.
C2_FailuresRecorded ==
    /\ \A k \in 1..Len(responses) :
          Failed(responses[k]) =>
             /\ Len(benchmarks) >= k
             /\ benchmarks[k].success = FALSE
             /\ "error" \in DOMAIN benchmarks[k]
             /\ Len(benchmarks[k].error) > 0
             /\ pc # "aborted"
             /\ k < NumTrials => (pc = "trial" \/ Len(calls) > k)
             /\ k = NumTrials => AfterSweep

\* a raise, then a refusal, then a success, and the sweep completed
C2_Witness ==
    /\ pc = "done" /\ Len(responses) = 4
    /\ responses[1].kind = "raise"
    /\ responses[2].kind = "response" /\ responses[2].status # OK
    /\ benchmarks[3].success
    /\ ~benchmarks[4].success

\* C5: a call answered with status 200 and a well-formed body is recorded
\* with success = true, lines_per_second = actual_lines / (duration_ms / 1000)
\* and ms_per_1k_lines = (duration_ms / actual_lines) * 1000, for every
\* duration_ms >= 0.
C5_SuccessRecorded ==
    \A k \in 1..Len(benchmarks) :
        AnsweredWell(responses[k]) =>
           /\ benchmarks[k].success = TRUE
           /\ RatMul[benchmarks[k].lines_per_second, responses[k].duration_ms]
                 = Num(1000 * benchmarks[k].actual_lines)
           /\ RatMul[benchmarks[k].ms_per_1k_lines,
                     Num(benchmarks[k].actual_lines)]
                 = RatMul[responses[k].duration_ms, Num(1000)]

\* C6: with no successful record the summary stays empty; otherwise the two
\* averages are the arithmetic means over the successful records, the
\* maximum is the largest actual_lines among them, and meets_target holds
\* exactly when the mean of ms_per_1k_lines is at most 100.
C6_Summary ==
    Summarised =>
        LET S == SuccessIdx
            n == Cardinality(S)
            ms == [i \in S |-> benchmarks[i].ms_per_1k_lines]
            lps == [i \in S |-> benchmarks[i].lines_per_second]
        IN IF S = {} THEN DOMAIN summary = {}
           ELSE /\ RatMul[summary.average_ms_per_1k_lines, Num(n)] = SumOver(S, ms)
                /\ RatMul[summary.average_lines_per_second, Num(n)] = SumOver(S, lps)
                /\ \E i \in S : summary.max_lines_tested = benchmarks[i].actual_lines
                /\ \A i \in S : summary.max_lines_tested >= benchmarks[i].actual_lines
                /\ summary.meets_target <=> RatLeq(SumOver(S, ms), Num(100 * n))

\* successes at 50 and 150 next to a failure: the mean is exactly 100
C6_Witness ==
    /\ pc = "done" /\ DOMAIN summary # {}
    /\ summary.average_ms_per_1k_lines = Num(100)
    /\ summary.meets_target = TRUE
    /\ \E i, j \in SuccessIdx :
          /\ benchmarks[i].ms_per_1k_lines = Num(50)
          /\ benchmarks[j].ms_per_1k_lines = Num(150)
    /\ \E k \in 1..Len(benchmarks) : ~benchmarks[k].success

\* C7: a summary's total count is the number of trials of the result list,
\* its successful count the number of successful records, and the successful
\* count is at most the total count.
C7_Counts ==
    DOMAIN summary # {} =>
        /\ summary.total_tests = Len(benchmarks)
        /\ summary.successful_tests = Cardinality(SuccessIdx)
        /\ summary.successful_tests <= summary.total_tests

\* C8: a failed probe ends the run with no call, no record and no file;
\* after a successful probe the file is written, once, after the last trial
\* was recorded, whatever the trials ended in.
C8_ProbeGates ==
    /\ [](pc = "aborted" =>
             calls = <<>> /\ benchmarks = <<>> /\ file_writes = 0)
    /\ [](file_writes <= 1)
    /\ [](file_writes = 1 =>
             /\ Len(benchmarks) = NumTrials
             /\ written.benchmarks = benchmarks)
    /\ [][file_writes = 1 => file_writes' = 1]_vars
    /\ (pc \notin {"probe", "aborted"}) ~> (file_writes = 1)

\* a run whose trials all failed and whose file was written
C8_Witness ==
    /\ pc = "done" /\ file_writes = 1 /\ Len(benchmarks) = 2
    /\ SuccessIdx = {}
    /\ DOMAIN written.summary = {}

\* C10: the deliverable is READY exactly when there are at least three
\* successful records and the last three of them, in list order with the
\* failed ones skipped, each have actual_lines >= 1000; the check leaves the
\* summary as it was saved.
C10_Readiness ==
    pc = "done" =>
        LET S == SuccessIdx
            last3 == {i \in S : Cardinality({j \in S : j > i}) < 3}
        IN /\ deliverable = "READY" <=>
                 /\ Cardinality(S) >= 3
                 /\ \A i \in last3 : benchmarks[i].actual_lines >= 1000
           /\ summary = written.summary
           /\ benchmarks = written.benchmarks

\* READY with a failed trial between the successes and the target missed
C10_Witness ==
    /\ pc = "done" /\ deliverable = "READY"
    /\ benchmarks[1].success /\ ~benchmarks[2].success
    /\ Cardinality(SuccessIdx) = 3
    /\ summary.meets_target = FALSE

----------------------------------------------------------------------------
(* Properties of the generators, under SpecGen *)

\* C3: for every target of at least 6 and both dialects, the number of
\* newline-separated lines of the returned text is at least the target.
C3_NeverUndershoots ==
    (gpc = "returned" /\ lines >= 6) => ActualLines(code) >= lines

\* a returned text for a target that took several blocks and declarations
C3_Witness ==
    /\ gpc = "returned" /\ lines >= 100 /\ dialect = "TypeScript"
    /\ function_count >= 3
    /\ Len(code_parts) > 5 + function_count
    /\ ActualLines(code) >= lines

\* C4: for every target of at least 6 and both dialects, the number of lines
\* of the returned text is below the target plus the largest template.
C4_BoundedOvershoot ==
    (gpc = "returned" /\ lines >= 6)
        => ActualLines(code) < lines + MaxBlock(dialect)

\* C9: for every target of at most 0 and both dialects the loop body never
\* runs and the returned text is the import block alone, 5 lines long.
C9_PreambleOnly ==
    lines <= 0 =>
        /\ function_count = 0
        /\ current_lines = 5
        /\ gpc = "returned" =>
              /\ Split(code) = Preamble(dialect)
              /\ ActualLines(code) = 5

\* a returned text for a target of 0 or less
C9_Witness ==
    gpc = "returned" /\ lines <= 0 /\ dialect = "JavaScript" /\ Len(code) = 8

----------------------------------------------------------------------------
(* The rotation of the TypeScript generator *)

\* the head lines of the four constructs the TypeScript templates declare
\* (lines 148, 164, 205 and 246)
TemplateKinds ==
    <<"interface Entity", "class Repository", "async function processEntity",
      "const createValidator">>

\* a part that spans several lines: only the templates do
IsBlock(part) == \E k \in 1..Len(part) : part[k] = NL

\* the templates appended so far, one per iteration, in order
Blocks(parts) == SelectSeq(parts, IsBlock)

\* how many times a construct is declared in a block
Declared(block, kind) == Cardinality({k \in 1..Len(block) : block[k] = kind})

\* how many times a construct is declared by iterations i .. i+3
DeclaredInFour(bl, i, kind) ==
    Declared(bl[i + 1], kind) + Declared(bl[i + 2], kind)
  + Declared(bl[i + 3], kind) + Declared(bl[i + 4], kind)

\* C11 (as stated): in generate_typescript_code the rotation index starts
\* at 0 and grows by one per iteration; iteration i emits the one of four
\* kinds (interface, repository class, asynchronous processing function,
\* validator factory) that i mod 4 selects, so any four consecutive
\* iterations emit each of the four kinds exactly once.
C11_FourKinds ==
    (dialect = "TypeScript" /\ gpc # "off") =>
        LET bl == Blocks(code_parts)
        IN /\ Len(bl) = function_count
           /\ \A i \in 0..(Len(bl) - 1) : \A k \in 1..4 :
                 Declared(bl[i + 1], TemplateKinds[k])
                     = (IF k = (i % 4) + 1 THEN 1 ELSE 0)
           /\ \A i \in 0..(Len(bl) - 4) : \A k \in 1..4 :
                 DeclaredInFour(bl, i, TemplateKinds[k]) = 1

\* C11 (amended): the rotation index starts at 0 and grows by one per
\* iteration; iteration i emits one of three templates selected by i mod 4:
\* the interface at 0, the repository class at 1, and at 2 and at 3 one
\* block that declares both the asynchronous processing function and the
\* validator factory; any four consecutive iterations declare the interface
\* once, the class once and each of the two functions twice.
C11_ThreeTemplates ==
    (dialect = "TypeScript" /\ gpc # "off") =>
        LET bl == Blocks(code_parts)
        IN /\ Len(bl) = function_count
           /\ \A i \in 0..(Len(bl) - 1) : \A k \in 1..4 :
                 Declared(bl[i + 1], TemplateKinds[k])
                     = (IF i % 4 = 0 THEN (IF k = 1 THEN 1 ELSE 0)
                        ELSE IF i % 4 = 1 THEN (IF k = 2 THEN 1 ELSE 0)
                        ELSE (IF k \in {3, 4} THEN 1 ELSE 0))
           /\ \A i \in 0..(Len(bl) - 4) : \A k \in 1..4 :
                 DeclaredInFour(bl, i, TemplateKinds[k])
                     = (IF k \in {1, 2} THEN 1 ELSE 2)

\* a returned TypeScript text built by more than four iterations, so that
\* two windows of four consecutive iterations have been emitted
C11_Witness ==
    dialect = "TypeScript" /\ gpc = "returned" /\ function_count >= 5

====
